---- MODULE Spec2Model ----
(***************************************************************************)
(* A model of the viz-workflow raster pyramid builder.                     *)
(*                                                                         *)
(*   ConfigManager (src/pdgworkflow/ConfigManager.py): the value-range     *)
(*   store, i.e. the "statistics" list of the configuration with each      *)
(*   statistic's general val_range and its per-zoom z_config.              *)
(*                                                                         *)
(*   RasterTiler (src/pdgworkflow/RasterTiler.py): the orchestrator that   *)
(*   rasterizes the staged vector tiles at the max zoom, composites the    *)
(*   parent tiles level by level, records every raster in the summary      *)
(*   ledger and merges the observed ranges into the store.                 *)
(*                                                                         *)
(* Python dict keys keep their type: the int 10 and the str "10" are two   *)
(* different keys of a z_config dict.  A zoom argument is therefore a      *)
(* record [t, z] with t one of "none" (z=None), "int", "str".              *)
(***************************************************************************)
EXTENDS Integers, Sequences, FiniteSets, TLC

VARIABLES
    statistics,       \* ConfigManager.config["statistics"]: stat -> [val_range, z_config]
    last,             \* the store operation performed last: [op, kt]
    ops,              \* number of store operations performed so far
    rasters_summary,  \* the rows of filename_rasters_summary, in append order
    events,           \* the rows of filename_rasterization_events, in append order
    geotiffs,         \* the tiles whose GeoTIFF exists in dir_geotiff
    z_range,          \* the configured z_range, <<min zoom, max zoom>>
    pc,               \* where the orchestrator is: idle, leaves, level, done, raised
    args,             \* the arguments of the running call: [overwrite, recursive]
    todo,             \* the paths / tiles the running for-loop has not reached yet
    parent_tiles,     \* the local set parent_tiles of the running loop
    attempted,        \* history: the tiles attempted since the call began
    produced,         \* history: the tiles the running loop has produced
    frontier,         \* history: the sets handed to each loop, in call order
    call,             \* history: the running call, its arguments and the files it found
    web_tiles,        \* the <<tile, stat>> pairs whose web tile image exists
    encoded,          \* history: the WebImage encoder invocations, [tile, stat, min, max]
    composited,       \* history: the Raster.from_rasters invocations, [tile, rasters]
    csv,              \* one CSV file of __append_to_csv: [lines, appended]
    dedup,            \* one rasterize_vector input: the config options and the table
    heap              \* the statistics objects and the ConfigManager instances holding them

(***************************************************************************)
(* Bounds of the model.                                                    *)
(***************************************************************************)
MaxOps == 2
MaxRasters == 2
MaxZoom == 1
MaxPaths == 2
MaxCol == 3
MaxRows == 2
MaxAppends == 3

(***************************************************************************)
(* Python values.                                                          *)
(***************************************************************************)
\* Python's None as the value of a bound.
None == -1
\* The outcome of an expression that raises TypeError (None[0], None[1]).
TypeError == -2

\* Values a bound can hold (only compared for equality by the store; ordered
\* by the summary aggregation).
Vals == {2, 5}
Bound == Vals \cup {None}

\* A value range that does not exist (the Python value None where a
\* [min, max] list is expected; also a z_config that is None, a zoom key
\* that is not in z_config).
NoRange == << >>
Ranges == {NoRange} \cup {<<a, b>> : a \in Bound, b \in Bound}

\* The statistics of ConfigManager.defaults.
Stats == {"polygon_count", "coverage"}

\* Zoom levels the store is exercised at.
RangeZooms == {0, 1}

\* Zoom arguments.
NoZ == [t |-> "none", z |-> 0]
IntKey(z) == [t |-> "int", z |-> z]
StrKey(z) == [t |-> "str", z |-> z]
KeyTypes == {"int", "str"}
Keys == {[t |-> kt, z |-> z] : kt \in KeyTypes, z \in RangeZooms}
ZArgs == Keys \cup {NoZ}

\* str(z) of get_value_range: a str is kept, anything else is formatted.
Str(z) == IF z.t = "str" THEN z ELSE [t |-> "str", z |-> z.z]

(***************************************************************************)
(* ConfigManager: reading the store.  self is config["statistics"].        *)
(***************************************************************************)
get_value_range(self, stat, z, sub_general) ==
    LET z_config == self[stat].z_config
        general_val_range == self[stat].val_range
    IN  IF z = NoZ THEN general_val_range
        ELSE IF z_config[Str(z)] = NoRange
             THEN (IF sub_general THEN general_val_range ELSE NoRange)
             ELSE z_config[Str(z)]

get_min(self, stat, z, sub_general) ==
    LET value_range == get_value_range(self, stat, z, sub_general)
    IN  IF value_range = NoRange THEN None
        ELSE IF value_range[1] = None /\ sub_general
             THEN (IF get_value_range(self, stat, NoZ, FALSE) = NoRange
                   THEN TypeError
                   ELSE get_value_range(self, stat, NoZ, FALSE)[1])
             ELSE value_range[1]

get_max(self, stat, z, sub_general) ==
    LET value_range == get_value_range(self, stat, z, sub_general)
    IN  IF value_range = NoRange THEN None
        ELSE IF value_range[2] = None /\ sub_general
             THEN (IF get_value_range(self, stat, NoZ, FALSE) = NoRange
                   THEN TypeError
                   ELSE get_value_range(self, stat, NoZ, FALSE)[2])
             ELSE value_range[2]

max_missing(self, stat, z, sub_general) ==
    LET value_range == get_value_range(self, stat, z, sub_general)
    IN  IF value_range = NoRange THEN TRUE ELSE value_range[2] = None

min_missing(self, stat, z, sub_general) ==
    LET value_range == get_value_range(self, stat, z, sub_general)
    IN  IF value_range = NoRange THEN TRUE ELSE value_range[1] = None

(***************************************************************************)
(* ConfigManager: writing the store.  Each operator returns the store      *)
(* after the call.                                                         *)
(***************************************************************************)
\* The range list of (stat, z) exactly as create_value_range finds it: the
\* key is used as given, without str().
stored_range(self, stat, z) ==
    IF z = NoZ THEN self[stat].val_range ELSE self[stat].z_config[z]

with_range(self, stat, z, val_range) ==
    IF z = NoZ
    THEN [self EXCEPT ![stat].val_range = val_range]
    ELSE [self EXCEPT ![stat].z_config[z] = val_range]

\* A create_value_range that replaces the list even when one exists.
create_value_range_replacing(self, stat, z, overwrite) ==
    with_range(self, stat, z, <<None, None>>)

create_value_range(self, stat, z, overwrite) ==
    IF stored_range(self, stat, z) = NoRange \/ overwrite
    THEN with_range(self, stat, z, <<None, None>>)
    ELSE self

\* A set_min that writes the general range whatever zoom it is given.
set_general_min(self, value, stat, z) ==
    LET created == create_value_range(self, stat, NoZ, FALSE)
        value_range == stored_range(created, stat, NoZ)
    IN  with_range(created, stat, NoZ, <<value, value_range[2]>>)

set_min(self, value, stat, z) ==
    LET created == create_value_range(self, stat, z, FALSE)
        value_range == stored_range(created, stat, z)
    IN  with_range(created, stat, z, <<value, value_range[2]>>)

set_max(self, value, stat, z) ==
    LET created == create_value_range(self, stat, z, FALSE)
        value_range == stored_range(created, stat, z)
    IN  with_range(created, stat, z, <<value_range[1], value>>)

\* The body of update_ranges' inner loop for one (stat, z, val_range).
update_range(self, stat, z, val_range) ==
    LET s1 == IF min_missing(self, stat, z, TRUE)
              THEN set_min(self, val_range[1], stat, z) ELSE self
    IN  IF max_missing(s1, stat, z, TRUE)
        THEN set_max(s1, val_range[2], stat, z) ELSE s1

\* update_ranges: new_ranges is a function from <<stat, z>> pairs to
\* <<min, max>>; the pairs are visited one after the other.
RECURSIVE update_items(_, _, _)
update_items(self, new_ranges, items) ==
    IF items = {} THEN self
    ELSE LET item == CHOOSE i \in items : TRUE
         IN  update_items(update_range(self, item[1], item[2], new_ranges[item]),
                          new_ranges, items \ {item})

update_ranges(self, new_ranges) ==
    update_items(self, new_ranges, DOMAIN new_ranges)

(***************************************************************************)
(* The store as a state machine: the public operations of ConfigManager.   *)
(***************************************************************************)
storeVars == <<statistics, last, ops>>
webVars == <<web_tiles, encoded>>
auxVars == <<csv, dedup, heap>>
sideVars == <<composited, csv, dedup, heap>>
buildVars == <<statistics, last, ops, rasters_summary, events, geotiffs, z_range, pc,
               args, todo, parent_tiles, attempted, produced, frontier, call, web_tiles,
               encoded, composited, heap>>
tilerVars == <<events, geotiffs, z_range, pc, args, todo, parent_tiles,
               attempted, produced, frontier, call, web_tiles, encoded, composited,
               csv, dedup, heap>>
vars == <<statistics, last, ops, rasters_summary, events, geotiffs, z_range, pc, args,
          todo, parent_tiles, attempted, produced, frontier, call, web_tiles, encoded,
          composited, csv, dedup, heap>>

\* Observed (min, max) pairs.
ObsPairs == {<<a, b>> \in Vals \X Vals : a <= b}

\* The mappings handed to update_ranges: the zooms of one key type for some
\* statistics, each statistic with one observed pair.
NewRanges ==
    UNION { UNION { UNION { [ { <<s, [t |-> kt, z |-> z]>> : s \in Ss, z \in Zs } -> {p} ]
                            : p \in ObsPairs }
                    : Zs \in (SUBSET RangeZooms) \ {{}} }
            : kt \in KeyTypes, Ss \in (SUBSET Stats) \ {{}} }

KeyTypeOf(new_ranges) == (CHOOSE i \in DOMAIN new_ranges : TRUE)[2].t

EmptyZConfig == [k \in Keys |-> NoRange]

\* The general val_range a statistic is configured with: absent, or a list
\* with either bound None (ConfigManager.defaults has [0, None] and [0, 1]).
InitRanges == {NoRange, <<None, None>>, <<2, None>>, <<None, 5>>, <<2, 5>>}

InitStatistics ==
    { [s \in Stats |-> [val_range |-> IF s = "polygon_count" THEN r ELSE c,
                         z_config |-> EmptyZConfig]]
      : r \in InitRanges, c \in {NoRange, <<2, 5>>} }

\* No call is running.
NoCall == [op |-> "none", paths |-> {}, overwrite |-> TRUE, option |-> TRUE,
           tms_ok |-> TRUE, existing |-> {}]

\* A path that is not a file.
NoFile == [exists |-> FALSE, lines |-> << >>]

\* A CSV file that does not exist yet, with the history of its appends: the
\* rows handed to __append_to_csv, in call order, and the number of calls.
NoCsv == [file |-> NoFile, appended |-> << >>, n |-> 0]

\* No table is being rasterized.
NoDedup == [deduplicate_at |-> [t |-> "none", v |-> {}], deduplicate_method |-> "none",
            has_column |-> FALSE, gdf |-> << >>, done |-> FALSE, rasterized |-> << >>]

\* The statistics of ConfigManager.defaults: polygon_count with a general
\* min and no max, coverage with both.
DefaultStatistics ==
    [s \in Stats |-> [val_range |-> IF s = "polygon_count" THEN <<2, None>> ELSE <<2, 5>>,
                       z_config |-> EmptyZConfig]]

\* The objects before any ConfigManager is constructed: the statistics list
\* of the class attribute defaults is object 1, and there is no instance.
NoHeap == [objs |-> <<DefaultStatistics>>, inst |-> << >>]

\* The orchestrator before any call, with an empty output directory.
InitBuild ==
    /\ call = NoCall
    /\ composited = {}
    /\ web_tiles = {}
    /\ encoded = {}
    /\ rasters_summary = << >>
    /\ events = << >>
    /\ geotiffs = {}
    /\ pc = "idle"
    /\ args = [overwrite |-> TRUE, recursive |-> TRUE]
    /\ todo = {}
    /\ parent_tiles = {}
    /\ attempted = {}
    /\ produced = {}
    /\ frontier = << >>

InitTiler ==
    /\ InitBuild
    /\ csv = NoCsv
    /\ dedup = NoDedup
    /\ heap = NoHeap

InitStore ==
    /\ statistics \in InitStatistics
    /\ last = [op |-> "init", kt |-> "none"]
    /\ ops = 0
    /\ z_range = <<0, MaxZoom>>
    /\ InitTiler

SetMin(value, stat, z) ==
    /\ ops < MaxOps
    /\ statistics' = set_min(statistics, value, stat, z)
    /\ last' = [op |-> "set_min", kt |-> z.t]
    /\ ops' = ops + 1
    /\ UNCHANGED <<rasters_summary, tilerVars>>

SetMax(value, stat, z) ==
    /\ ops < MaxOps
    /\ statistics' = set_max(statistics, value, stat, z)
    /\ last' = [op |-> "set_max", kt |-> z.t]
    /\ ops' = ops + 1
    /\ UNCHANGED <<rasters_summary, tilerVars>>

UpdateRanges(new_ranges) ==
    /\ ops < MaxOps
    /\ statistics' = update_ranges(statistics, new_ranges)
    /\ last' = [op |-> "update_ranges", kt |-> KeyTypeOf(new_ranges)]
    /\ ops' = ops + 1
    /\ UNCHANGED <<rasters_summary, tilerVars>>

NextStore ==
    \/ \E value \in Vals, stat \in Stats, z \in ZArgs : SetMin(value, stat, z)
    \/ \E value \in Vals, stat \in Stats, z \in ZArgs : SetMax(value, stat, z)
    \/ \E new_ranges \in NewRanges : UpdateRanges(new_ranges)

SpecRanges == InitStore /\ [][NextStore]_vars

\* The two setters alone.
NextSetters ==
    \/ \E value \in Vals, stat \in Stats, z \in ZArgs : SetMin(value, stat, z)
    \/ \E value \in Vals, stat \in Stats, z \in ZArgs : SetMax(value, stat, z)

SpecSetters == InitStore /\ [][NextSetters]_vars

(***************************************************************************)
(* RasterTiler: the summary ledger and the range synchronisation.          *)
(***************************************************************************)
\* __end_tracking with a raster: one row per band (statistic) is appended
\* to the summary ledger; z is tile.z, an integer.
SummaryRows(z, bands) ==
    LET row(s) == [stat |-> s, z |-> z, min |-> bands[s][1], max |-> bands[s][2]]
    IN  <<row("polygon_count"), row("coverage")>>

Min(S) == CHOOSE x \in S : \A y \in S : x <= y
Max(S) == CHOOSE x \in S : \A y \in S : x >= y

\* get_z_ranges: the rows grouped by (stat, z), min of the mins and max of
\* the maxes; the zoom keys of the result are int(k).
get_z_ranges(summary) ==
    LET rows == {summary[i] : i \in 1..Len(summary)}
        groups == {<<r.stat, IntKey(r.z)>> : r \in rows}
        of(g) == {r \in rows : r.stat = g[1] /\ r.z = g[2].z}
    IN  [g \in groups |-> <<Min({r.min : r \in of(g)}), Max({r.max : r \in of(g)})>>]

\* The per-band summaries a written raster can report.
BandSummaries == [Stats -> ObsPairs]

TrackRaster(z, bands) ==
    /\ Len(rasters_summary) < MaxRasters * Cardinality(Stats)
    /\ rasters_summary' = rasters_summary \o SummaryRows(z, bands)
    /\ UNCHANGED <<storeVars, tilerVars>>

\* RasterTiler.update_ranges: get_z_ranges, then ConfigManager.update_ranges.
\* With no summary file pd.read_csv raises and nothing is merged.
TilerUpdateRanges ==
    /\ ops < MaxOps
    /\ rasters_summary # << >>
    /\ statistics' = update_ranges(statistics, get_z_ranges(rasters_summary))
    /\ last' = [op |-> "tiler_update_ranges", kt |-> "int"]
    /\ ops' = ops + 1
    /\ UNCHANGED <<rasters_summary, tilerVars>>

TilerUpdateRangesRaises ==
    /\ ops < MaxOps
    /\ rasters_summary = << >>
    /\ last' = [op |-> "FileNotFoundError", kt |-> "none"]
    /\ ops' = ops + 1
    /\ UNCHANGED <<statistics, rasters_summary, tilerVars>>

NextSync ==
    \/ \E z \in RangeZooms, bands \in BandSummaries : TrackRaster(z, bands)
    \/ TilerUpdateRanges
    \/ TilerUpdateRangesRaises

SpecSync == InitStore /\ [][NextSync]_vars

(***************************************************************************)
(* Properties of the value-range store.                                    *)
(***************************************************************************)
IsSet(v) == v \in Vals

\* The bounds of the range list stored for (stat, z), None when there is no list.
stored_min(self, stat, z) ==
    IF stored_range(self, stat, z) = NoRange THEN None ELSE stored_range(self, stat, z)[1]
stored_max(self, stat, z) ==
    IF stored_range(self, stat, z) = NoRange THEN None ELSE stored_range(self, stat, z)[2]

\* C1: update_ranges with integer zoom keys never changes a stored bound
\* (general or per-zoom, min or max) that holds a value before the call.
C1_StoredBoundsKept ==
    [][ (last'.op = "update_ranges" /\ last'.kt = "int") =>
          \A stat \in Stats, z \in ZArgs :
             /\ IsSet(stored_min(statistics, stat, z)) =>
                  stored_min(statistics', stat, z) = stored_min(statistics, stat, z)
             /\ IsSet(stored_max(statistics, stat, z)) =>
                  stored_max(statistics', stat, z) = stored_max(statistics, stat, z) ]_vars

\* C2: update_ranges never changes an effective bound: a value returned by
\* get_min / get_max(stat, z, sub_general=True) before the call is returned
\* after it.
C2_EffectiveBoundsKept ==
    [][ last'.op = "update_ranges" =>
          \A stat \in Stats, z \in Keys :
             /\ IsSet(get_min(statistics, stat, z, TRUE)) =>
                  get_min(statistics', stat, z, TRUE) = get_min(statistics, stat, z, TRUE)
             /\ IsSet(get_max(statistics, stat, z, TRUE)) =>
                  get_max(statistics', stat, z, TRUE) = get_max(statistics, stat, z, TRUE) ]_vars

\* No min (max) is stored for (stat, zoom): not in the general range and not
\* in a per-zoom range, whatever the type of its key.
NoStoredMin(self, stat, zoom) ==
    \A z \in {NoZ, IntKey(zoom), StrKey(zoom)} : ~IsSet(stored_min(self, stat, z))
NoStoredMax(self, stat, zoom) ==
    \A z \in {NoZ, IntKey(zoom), StrKey(zoom)} : ~IsSet(stored_max(self, stat, z))

\* C3: fill then read back. After the tiler merged the observed ranges, a
\* (stat, zoom) that had no stored min reads the observed min with
\* get_min(stat, tile.z), with and without fallback; likewise for max.
C3_FillThenReadBack ==
    [][ last'.op = "tiler_update_ranges" =>
          LET observed == get_z_ranges(rasters_summary)
          IN  \A g \in DOMAIN observed :
                 /\ NoStoredMin(statistics, g[1], g[2].z) =>
                      /\ get_min(statistics', g[1], g[2], FALSE) = observed[g][1]
                      /\ get_min(statistics', g[1], g[2], TRUE) = observed[g][1]
                 /\ NoStoredMax(statistics, g[1], g[2].z) =>
                      /\ get_max(statistics', g[1], g[2], FALSE) = observed[g][2]
                      /\ get_max(statistics', g[1], g[2], TRUE) = observed[g][2] ]_vars

\* The rows of the summary ledger for (stat, zoom).
RowsOf(stat, zoom) ==
    {i \in 1..Len(rasters_summary) :
        rasters_summary[i].stat = stat /\ rasters_summary[i].z = zoom}

\* C4: a statistic with general range (g, None), no per-zoom range and two
\* summary rows at a zoom: after the synchronisation the general range is
\* still (g, None), the per-zoom max read for the zoom is the max of the
\* rows' maxes, and the min resolved with fallback is still g.
C4_SyncScenario ==
    [][ last'.op = "tiler_update_ranges" =>
          \A stat \in Stats, zoom \in RangeZooms :
             ( /\ statistics[stat].val_range # NoRange
               /\ IsSet(statistics[stat].val_range[1])
               /\ statistics[stat].val_range[2] = None
               /\ statistics[stat].z_config = EmptyZConfig
               /\ Cardinality(RowsOf(stat, zoom)) = 2 )
             => /\ statistics'[stat].val_range = statistics[stat].val_range
                /\ get_max(statistics', stat, IntKey(zoom), FALSE)
                     = Max({rasters_summary[i].max : i \in RowsOf(stat, zoom)})
                /\ get_min(statistics', stat, IntKey(zoom), TRUE)
                     = statistics[stat].val_range[1] ]_vars

\* C5: min_missing is true exactly when get_min returns None, and
\* max_missing exactly when get_max returns None, for every statistic, zoom
\* and fallback flag.
C5_MissingIffUnset ==
    \A stat \in Stats, z \in Keys, sub_general \in BOOLEAN :
       /\ min_missing(statistics, stat, z, sub_general)
            <=> (get_min(statistics, stat, z, sub_general) = None)
       /\ max_missing(statistics, stat, z, sub_general)
            <=> (get_max(statistics, stat, z, sub_general) = None)

\* The value the three-tier resolution prescribes for a bound of (stat, z):
\* the per-zoom bound stored for z; with fallback, the general bound when
\* the per-zoom bound is unset; the general bound when z is None.
Resolved(per_zoom, general, z, sub_general) ==
    IF z = NoZ THEN general
    ELSE IF IsSet(per_zoom) THEN per_zoom
    ELSE IF sub_general THEN general
    ELSE None

\* C6: get_min / get_max follow the three-tier resolution in every store
\* state and never fail.
C6_ThreeTier ==
    \A stat \in Stats, z \in ZArgs, sub_general \in BOOLEAN :
       /\ get_min(statistics, stat, z, sub_general)
            = Resolved(stored_min(statistics, stat, z),
                       stored_min(statistics, stat, NoZ), z, sub_general)
       /\ get_max(statistics, stat, z, sub_general)
            = Resolved(stored_max(statistics, stat, z),
                       stored_max(statistics, stat, NoZ), z, sub_general)

\* All ranges of the store except the one of (stat, z) are the same in the
\* two stores.
SameExcept(s1, s2, stat, z) ==
    \A stat2 \in Stats, z2 \in ZArgs :
       (stat2 # stat \/ z2 # z) => stored_range(s1, stat2, z2) = stored_range(s2, stat2, z2)

\* C7: set_min(v, stat, z) leaves the range of (stat, z) existing with min v
\* and the max it had (None if it did not exist) and changes no other range;
\* symmetrically for set_max.
C7_SetterFrame ==
    [][ \A value \in Vals, stat \in Stats, z \in ZArgs :
          /\ SetMin(value, stat, z) =>
               /\ stored_range(statistics', stat, z)
                    = <<value, stored_max(statistics, stat, z)>>
               /\ SameExcept(statistics, statistics', stat, z)
          /\ SetMax(value, stat, z) =>
               /\ stored_range(statistics', stat, z)
                    = <<stored_min(statistics, stat, z), value>>
               /\ SameExcept(statistics, statistics', stat, z) ]_vars

\* C7 witness: set_min has just run on a per-zoom key and a per-zoom range
\* of that key type holds a min and the max that was stored before it.
C7_Witness ==
    /\ last.op = "set_min"
    /\ ops = 2
    /\ \E stat \in Stats, z \in Keys :
          /\ z.t = last.kt
          /\ IsSet(stored_min(statistics, stat, z))
          /\ IsSet(stored_max(statistics, stat, z))

(***************************************************************************)
(* RasterTiler: tiles and the tile path manager.                           *)
(***************************************************************************)
RECURSIVE Pow2(_)
Pow2(n) == IF n = 0 THEN 1 ELSE 2 * Pow2(n - 1)

Tile(x, y, z) == [x |-> x, y |-> y, z |-> z]

\* The part of the pyramid the model works in: the top row of the default
\* tile matrix set, which has two tiles at zoom 0 and 2^(z+1) columns at
\* zoom z, up to column MaxCol.
TilesAt(z) ==
    {Tile(x, 0, z) : x \in 0..(IF Pow2(z + 1) - 1 < MaxCol THEN Pow2(z + 1) - 1 ELSE MaxCol)}

Zooms == 0..MaxZoom

\* What get_parent_tile returns for a tile without a parent (zoom 0), when
\* it returns at all: a tile below zoom 0.
NoParent == Tile(0, 0, -1)

\* A parent coordinate one column off: a tile one zoom up that does not
\* cover the given tile.
neighbour_of_parent(tile) ==
    IF tile.z > 0 THEN Tile(tile.x \div 2 + 1, tile.y \div 2, tile.z - 1) ELSE NoParent

\* TilePathManager.get_parent_tile when it returns: the tile one zoom up that
\* covers the given tile, and for a zoom-0 tile a tile below zoom 0.
get_parent_tile(tile) ==
    IF tile.z > 0 THEN Tile(tile.x \div 2, tile.y \div 2, tile.z - 1) ELSE NoParent

\* The outcomes of processing one tile: "ok", "error" (an exception inside
\* the try block once the tile is known), "decode_error" (tile_from_path
\* raises) and "parent_error" (the tile is produced and get_parent_tile
\* raises, which it can only do for a tile without a parent).
LeafOutcomes(tile) ==
    {"ok", "error", "decode_error"} \cup (IF tile.z = 0 THEN {"parent_error"} ELSE {})

ParentOutcomes(tile) ==
    {"ok", "error"} \cup (IF tile.z = 0 THEN {"parent_error"} ELSE {})

(***************************************************************************)
(* RasterTiler: the ledgers.                                               *)
(***************************************************************************)
\* The summary every written raster reports in this part of the model (the
\* values do not steer the orchestrator; SpecSync varies them).
RasterBands == [s \in Stats |-> <<2, 5>>]

\* __end_tracking: the event row, and the summary rows when a raster is given.
EventRow(tile, error, raster) ==
    [tile |-> tile, z |-> tile.z, error |-> error, path |-> raster]

end_tracking_events(tile, error, raster) ==
    Append(events, EventRow(tile, error, raster))

\* raster_info in __end_tracking: one row per band, each with the tile and
\* its zoom.
raster_info(tile, bands) ==
    LET row(s) == [stat |-> s, z |-> tile.z, min |-> bands[s][1], max |-> bands[s][2],
                   tile |-> tile]
    IN  <<row("polygon_count"), row("coverage")>>

\* A tracking step that records no summary.
no_summary(tile, raster) == rasters_summary

end_tracking_summary(tile, raster) ==
    IF raster THEN rasters_summary \o raster_info(tile, RasterBands)
    ELSE rasters_summary

(***************************************************************************)
(* RasterTiler: the pyramid orchestrator.                                  *)
(***************************************************************************)
\* A loop that may be left before it has reached all its items.
loop_all_attempted(remaining) == TRUE

\* The for-loop of rasterize_vectors / parent_geotiffs_from_children has run
\* through all its items.
loop_done(remaining) == remaining = {}

\* A floor test that ignores the configured min zoom.
below_zero_only(z, last_z) == z < 0

\* A floor test that lets one level below the configured min zoom through.
below_floor_exclusive(z, last_z) == z < 0 \/ z < last_z - 1

\* parent_geotiffs_from_children returns before its loop: "Tiling is complete".
below_floor(z, last_z) == z < 0 \/ z < last_z

\* A parent set that keeps only the parent added last.
keep_last_parent(parents, parent) == {parent}

\* parent_tiles.add(get_parent_tile(tile)) for a tile that was produced.
add_parent(parents, parent) == parents \cup {parent}

\* tiles[0].z, the zoom the call takes its tiles to be at.
first_z(tiles) == (CHOOSE t \in tiles : TRUE).z

\* A per-tile operation that never skips.
never_skips(tile, overwrite) == FALSE

\* A skip test with the existence test inverted.
skips_missing(tile, overwrite) == tile \notin geotiffs /\ ~overwrite

\* os.path.isfile(out_path) and not overwrite: the per-tile operation skips.
skips(tile, overwrite) == tile \in geotiffs /\ ~overwrite

\* A validation that looks at the zoom only.
zoom_mismatch(paths, tms_ok) == paths = {} \/ first_z(paths) # z_range[2]

\* rasterize_vectors raises ValueError: no existing path, or the first path's
\* zoom or tiling scheme is not the configured one.
invalid_paths(paths, tms_ok) ==
    paths = {} \/ first_z(paths) # z_range[2] \/ ~tms_ok

\* A failure that hands the tile on as if it had been produced.
failed_tile(tile) == {tile}

\* return None after a failure: no tile is handed to the loop.
failed_return(tile) == {}

\* TilePathManager.get_child_paths: the four tiles one zoom down that the
\* tile covers.
get_child_paths(tile) ==
    {Tile(2 * tile.x + dx, 2 * tile.y + dy, tile.z + 1) : dx \in {0, 1}, dy \in {0, 1}}

\* A filter that keeps every path.
keep_all_paths(paths) == paths

\* TilePathManager.remove_nonexistent_paths: the paths that are files.
remove_nonexistent_paths(paths) == {t \in paths : t \in geotiffs}

\* Raster.from_rasters(rasters=children, ...) in parent_geotiff_from_children.
from_rasters(tile) ==
    [tile |-> tile, rasters |-> remove_nonexistent_paths(get_child_paths(tile))]

\* The record of a call as it starts.
Call(op, paths, overwrite, option, tms_ok) ==
    [op |-> op, paths |-> paths, overwrite |-> overwrite, option |-> option,
     tms_ok |-> tms_ok, existing |-> geotiffs]

\* parent_geotiffs_from_children starts its loop on these tiles.
enters_level(tiles) == tiles # {} /\ ~below_floor(first_z(tiles), z_range[1])

\* One record per call of the two loops, in call order: the tiles handed
\* to it, the tiles the round before it produced, and whether its loop ran.
Round(kind, tiles, from) ==
    [kind |-> kind, tiles |-> tiles, from |-> from,
     entered |-> (kind = "leaves" \/ enters_level(tiles))]

\* The start of parent_geotiffs_from_children(tiles, recursive, overwrite)
\* reached from the end of a loop: it returns when tiles is empty or its
\* zoom is below the floor, else its loop starts with an empty parent_tiles.
ParentGeotiffsFromChildren(tiles, recursive, overwrite) ==
    /\ frontier' = Append(frontier, Round("parents", tiles, produced))
    /\ produced' = {}
    /\ parent_tiles' = {}
    /\ IF enters_level(tiles)
       THEN /\ pc' = "level"
            /\ todo' = tiles
            /\ args' = [overwrite |-> overwrite, recursive |-> recursive]
       ELSE /\ pc' = "done"
            /\ todo' = {}
            /\ UNCHANGED args

\* The model follows one call of the orchestrator.
CanCall == pc = "idle"

\* Sets of at most MaxPaths tiles of one zoom.
TileSets(z) == {S \in SUBSET TilesAt(z) : Cardinality(S) <= MaxPaths}

\* rasterize_vectors(paths, make_parents, overwrite) up to its loop: paths
\* are the existing staged files, all at one zoom; tms_ok says their tiling
\* scheme is the configured one.
RasterizeVectors(paths, tms_ok, make_parents, overwrite) ==
    /\ CanCall
    /\ attempted' = {}
    /\ produced' = {}
    /\ parent_tiles' = {}
    /\ call' = Call("rasterize_vectors", paths, overwrite, make_parents, tms_ok)
    /\ IF invalid_paths(paths, tms_ok)
       THEN /\ pc' = "raised"
            /\ todo' = {}
            /\ frontier' = << >>
            /\ UNCHANGED args
       ELSE /\ pc' = "leaves"
            /\ todo' = paths
            /\ frontier' = <<Round("leaves", paths, {})>>
            /\ args' = [overwrite |-> overwrite, recursive |-> make_parents]
    /\ UNCHANGED <<storeVars, sideVars, rasters_summary, events, geotiffs, z_range, webVars>>

\* One iteration of the loop of rasterize_vectors: rasterize_vector(path)
\* and the update of parent_tiles.
RasterizeVector(path, outcome) ==
    /\ pc = "leaves"
    /\ path \in todo
    /\ todo' = todo \ {path}
    /\ attempted' = attempted \cup {path}
    /\ IF outcome = "decode_error"
       THEN \* tile_from_path raises: the handler's message reads the unbound
            \* local tile and the UnboundLocalError leaves the call
            /\ pc' = "raised"
            /\ UNCHANGED <<geotiffs, events, rasters_summary, parent_tiles, produced>>
       ELSE IF skips(path, args.overwrite)
       THEN /\ outcome = "ok"
            /\ UNCHANGED <<geotiffs, events, rasters_summary, parent_tiles, produced, pc>>
       ELSE IF outcome = "error"
       THEN /\ events' = end_tracking_events(path, TRUE, FALSE)
            /\ parent_tiles' = parent_tiles \cup
                  {get_parent_tile(t) : t \in failed_return(path)}
            /\ UNCHANGED <<geotiffs, rasters_summary, produced, pc>>
       ELSE /\ geotiffs' = geotiffs \cup {path}
            /\ rasters_summary' = end_tracking_summary(path, TRUE)
            /\ events' = end_tracking_events(path, FALSE, TRUE)
            /\ produced' = produced \cup {path}
            /\ IF outcome = "parent_error"
               THEN pc' = "raised" /\ UNCHANGED parent_tiles
               ELSE /\ parent_tiles' = add_parent(parent_tiles, get_parent_tile(path))
                    /\ UNCHANGED pc
    /\ UNCHANGED <<storeVars, sideVars, z_range, args, frontier, call, webVars>>

\* The end of rasterize_vectors: with make_parents the parents are built
\* (recursive and overwrite at their defaults, True).
RasterizeVectorsEnd ==
    /\ pc = "leaves"
    /\ loop_done(todo)
    /\ IF args.recursive
       THEN ParentGeotiffsFromChildren(parent_tiles, TRUE, TRUE)
       ELSE /\ pc' = "done"
            /\ UNCHANGED <<todo, parent_tiles, args, frontier, produced>>
    /\ UNCHANGED <<storeVars, sideVars, rasters_summary, events, geotiffs, z_range, attempted,
                   call, webVars>>

\* A direct call parent_geotiffs_from_children(tiles, recursive, overwrite).
CallParentGeotiffs(tiles, recursive, overwrite) ==
    /\ CanCall
    /\ attempted' = {}
    /\ call' = Call("parent_geotiffs_from_children", tiles, overwrite, recursive, TRUE)
    /\ frontier' = <<Round("parents", tiles, {})>>
    /\ produced' = {}
    /\ parent_tiles' = {}
    /\ IF enters_level(tiles)
       THEN /\ pc' = "level"
            /\ todo' = tiles
            /\ args' = [overwrite |-> overwrite, recursive |-> recursive]
       ELSE /\ pc' = "done"
            /\ todo' = {}
            /\ UNCHANGED args
    /\ UNCHANGED <<storeVars, sideVars, rasters_summary, events, geotiffs, z_range, webVars>>

\* One iteration of the loop of parent_geotiffs_from_children:
\* parent_geotiff_from_children(tile) and the update of parent_tiles.
ParentGeotiffFromChildren(tile, outcome) ==
    /\ pc = "level"
    /\ tile \in todo
    /\ todo' = todo \ {tile}
    /\ attempted' = attempted \cup {tile}
    /\ IF skips(tile, args.overwrite)
       THEN /\ outcome = "ok"
            /\ UNCHANGED <<geotiffs, events, rasters_summary, parent_tiles, produced, pc,
                           composited>>
       ELSE IF outcome = "error"
       THEN /\ events' = end_tracking_events(tile, TRUE, FALSE)
            /\ parent_tiles' = parent_tiles \cup
                  {get_parent_tile(t) : t \in failed_return(tile)}
            /\ UNCHANGED <<geotiffs, rasters_summary, produced, pc, composited>>
       ELSE /\ composited' = composited \cup {from_rasters(tile)}
            /\ geotiffs' = geotiffs \cup {tile}
            /\ rasters_summary' = end_tracking_summary(tile, TRUE)
            /\ events' = end_tracking_events(tile, FALSE, TRUE)
            /\ produced' = produced \cup {tile}
            /\ IF outcome = "parent_error"
               THEN pc' = "raised" /\ UNCHANGED parent_tiles
               ELSE /\ parent_tiles' = add_parent(parent_tiles, get_parent_tile(tile))
                    /\ UNCHANGED pc
    /\ UNCHANGED <<storeVars, auxVars, z_range, args, frontier, call, webVars>>

\* The end of parent_geotiffs_from_children: with recursive it calls itself
\* on the parents of the tiles it produced.
ParentGeotiffsEnd ==
    /\ pc = "level"
    /\ loop_done(todo)
    /\ IF args.recursive
       THEN ParentGeotiffsFromChildren(parent_tiles, TRUE, args.overwrite)
       ELSE /\ pc' = "done"
            /\ UNCHANGED <<todo, parent_tiles, args, frontier, produced>>
    /\ UNCHANGED <<storeVars, sideVars, rasters_summary, events, geotiffs, z_range, attempted,
                   call, webVars>>

\* The GeoTIFFs an earlier run may have left in dir_geotiff: none, or the
\* first two columns of every zoom.
AllTiles == UNION {TilesAt(z) : z \in Zooms}

InitGeotiffs == {{}, {t \in AllTiles : t.x <= 1}}

InitPyramid ==
    /\ statistics \in {st \in InitStatistics : \A s \in Stats : st[s].val_range = <<2, 5>>}
    /\ last = [op |-> "init", kt |-> "none"]
    /\ ops = 0
    /\ z_range \in {zr \in Zooms \X Zooms : zr[1] <= zr[2]}
    /\ rasters_summary = << >>
    /\ events = << >>
    /\ geotiffs \in InitGeotiffs
    /\ pc = "idle"
    /\ args = [overwrite |-> TRUE, recursive |-> TRUE]
    /\ todo = {}
    /\ parent_tiles = {}
    /\ attempted = {}
    /\ produced = {}
    /\ frontier = << >>
    /\ call = NoCall
    /\ web_tiles = {}
    /\ encoded = {}
    /\ composited = {}
    /\ csv = NoCsv
    /\ dedup = NoDedup
    /\ heap = NoHeap

NextPyramid ==
    \/ \E z \in Zooms : \E paths \in TileSets(z), tms_ok, make_parents, overwrite \in BOOLEAN :
          RasterizeVectors(paths, tms_ok, make_parents, overwrite)
    \/ \E path \in todo : \E outcome \in LeafOutcomes(path) :
          RasterizeVector(path, outcome)
    \/ RasterizeVectorsEnd
    \/ \E z \in Zooms : \E tiles \in TileSets(z), recursive, overwrite \in BOOLEAN :
          CallParentGeotiffs(tiles, recursive, overwrite)
    \/ \E tile \in todo : \E outcome \in ParentOutcomes(tile) :
          ParentGeotiffFromChildren(tile, outcome)
    \/ ParentGeotiffsEnd

SpecPyramid == InitPyramid /\ [][NextPyramid]_vars


(***************************************************************************)
(* Properties of the pyramid orchestrator.                                 *)
(***************************************************************************)
\* The zoom of a round (the rounds of one call hold tiles of one zoom).
round_z(r) == first_z(r.tiles)

\* The rounds whose loop ran.
Entered == {i \in DOMAIN frontier : frontier[i].entered}

\* C8: within one call of rasterize_vectors(make_parents=True) or
\* parent_geotiffs_from_children(recursive=True) on a same-zoom set, a tile
\* at zoom z is attempted only after every tile handed to the loop at zoom
\* z+1 has been attempted; each round is one zoom below the round before
\* it, and the first round of rasterize_vectors is at the max zoom.
C8_LevelSynchronous ==
    /\ \A i \in DOMAIN frontier :
          /\ (i > 1 /\ frontier[i].tiles # {}) =>
                round_z(frontier[i]) = round_z(frontier[i - 1]) - 1
          /\ (i = 1 /\ frontier[i].kind = "leaves") =>
                round_z(frontier[i]) = z_range[2]
    /\ \A t \in attempted : \A i \in Entered :
          round_z(frontier[i]) = t.z + 1 => frontier[i].tiles \subseteq attempted
    /\ \A t \in attempted : \E i \in Entered : t \in frontier[i].tiles

\* A call has gone down two levels: two tiles were attempted at the first
\* level, one of them failed, and a tile of the level below was attempted.
C8_Witness ==
    /\ Len(frontier) >= 2
    /\ frontier[1].entered /\ frontier[2].entered
    /\ Cardinality(frontier[1].tiles) = 2
    /\ Cardinality(frontier[2].from) = 1
    /\ \E t \in attempted : t \in frontier[2].tiles

\* C9: parent_geotiffs_from_children never attempts (so never composites or
\* writes) a tile below the configured min zoom; a non-empty set at the min
\* zoom itself is processed; and the round after the one at the min zoom
\* does not run.
C9_MinZoomFloor ==
    /\ \A t \in attempted \cup todo : t.z >= z_range[1] /\ t.z >= 0
    /\ \A i \in DOMAIN frontier :
          LET r == frontier[i]
          IN  /\ (r.kind = "parents" /\ r.tiles # {} /\ round_z(r) = z_range[1])
                    => r.entered
              /\ (r.tiles # {} /\ round_z(r) < z_range[1]) => ~r.entered
              /\ (i > 1 /\ frontier[i - 1].tiles # {}
                        /\ round_z(frontier[i - 1]) = z_range[1]) => ~r.entered

\* A recursive call processed a level at a min zoom above 0, produced a
\* tile there, and returned from the round below without attempting it.
C9_Witness ==
    /\ pc = "done"
    /\ z_range[1] > 0
    /\ Len(frontier) >= 2
    /\ LET r == frontier[Len(frontier) - 1]
           n == frontier[Len(frontier)]
       IN  /\ r.kind = "parents" /\ r.entered /\ round_z(r) = z_range[1]
           /\ n.tiles # {} /\ round_z(n) = z_range[1] - 1 /\ ~n.entered
           /\ n.tiles \cap attempted = {}

\* C10: the set handed to a recursion level is exactly the set of parents
\* of the tiles the round before it produced: every produced tile's parent
\* is in it, and nothing else is.
C10_ParentsOfSuccesses ==
    /\ \A i \in DOMAIN frontier :
          i > 1 => frontier[i].tiles = {get_parent_tile(t) : t \in frontier[i].from}
    /\ pc \in {"leaves", "level"} =>
          parent_tiles = {get_parent_tile(t) : t \in produced}

\* Both tiles of a round above zoom 0 were produced, they have different
\* parents, and the next round was handed both parents.
C10_Witness ==
    /\ Len(frontier) >= 2
    /\ Cardinality(frontier[2].tiles) = 2
    /\ Cardinality(frontier[2].from) = 2
    /\ \A t \in frontier[2].from : t.z > 0

(***************************************************************************)
(* Re-runs, skips and failures of the GeoTIFF steps.                       *)
(***************************************************************************)
\* The running loop of rasterize_vectors / parent_geotiffs_from_children
\* takes the given item off its work list in this step.
LoopStep(loop, tile) == pc = loop /\ tile \in todo /\ todo' = todo \ {tile}

\* The rows the event ledger and the summary ledger hold are the same
\* before and after the step.
LedgersKept == events' = events /\ rasters_summary' = rasters_summary

\* C11: rasterize_vectors called with overwrite=False on paths whose
\* GeoTIFFs all exist already (a first run rasterized every one of them)
\* appends no row to the raster-summary ledger.
C11_RerunAddsNoRows ==
    (/\ call.op = "rasterize_vectors"
     /\ ~call.overwrite
     /\ call.paths \subseteq call.existing)
        => rasters_summary = << >>

\* Such a second run over two paths, with make_parents, has finished.
C11_Witness ==
    /\ call.op = "rasterize_vectors"
    /\ ~call.overwrite /\ call.option
    /\ Cardinality(call.paths) = 2
    /\ call.paths \subseteq call.existing
    /\ attempted = call.paths
    /\ pc = "done"

\* C12: rasterize_vector and parent_geotiff_from_children with
\* overwrite=False on a tile whose GeoTIFF exists write no file, append no
\* summary row and no event row, and return None (the tile is not counted
\* as produced and no parent is added for it).
C12_SkipIsNoOp ==
    [][\A tile \in todo :
          (/\ LoopStep("leaves", tile) \/ LoopStep("level", tile)
           /\ tile \in geotiffs
           /\ ~args.overwrite)
             => /\ geotiffs' = geotiffs
                /\ LedgersKept
                /\ produced' = produced
                /\ parent_tiles' = parent_tiles]_vars

\* A parent tile that existed before the call was skipped by a direct call
\* with overwrite=False, and a leaf that existed was skipped likewise.
C12_Witness ==
    /\ ~call.overwrite
    /\ pc \in {"leaves", "level"}
    /\ \E t \in attempted : t \in call.existing /\ t \in frontier[Len(frontier)].tiles
    /\ events = << >>

\* C14: a rasterize_vectors call with overwrite=False (as rasterize_all
\* makes it, with make_parents) writes no GeoTIFF that existed before the
\* call, at the leaf level or at any parent level.
C14_NoRecreate ==
    (call.op = "rasterize_vectors" /\ ~call.overwrite)
        => \A i \in DOMAIN events :
              events[i].path => events[i].tile \notin call.existing

\* C15: in the loop of rasterize_vectors, a path that is neither skipped
\* nor produced has failed: the step appends one event row with an error
\* for it and the loop goes on with the remaining paths.
C15_LeafFailureIsolated ==
    [][\A path \in todo :
          (/\ LoopStep("leaves", path)
           /\ ~(path \in geotiffs /\ ~args.overwrite)
           /\ produced' = produced)
             => /\ pc' = "leaves"
                /\ events' = Append(events, EventRow(path, TRUE, FALSE))]_vars

\* C16: in the loop of parent_geotiffs_from_children, a tile that is
\* neither skipped nor produced has failed: the step appends one event row
\* with an error for it, writes nothing, adds no parent and the loop goes
\* on; and the loop ends only when every tile of the level was attempted.
C16_ParentFailureIsolated ==
    [][/\ \A tile \in todo :
            (/\ LoopStep("level", tile)
             /\ ~(tile \in geotiffs /\ ~args.overwrite)
             /\ produced' = produced)
               => /\ pc' = "level"
                  /\ events' = Append(events, EventRow(tile, TRUE, FALSE))
                  /\ parent_tiles' = parent_tiles
                  /\ geotiffs' = geotiffs
                  /\ rasters_summary' = rasters_summary
       /\ (pc = "level" /\ (frontier' # frontier \/ pc' = "done"))
              => frontier[Len(frontier)].tiles \subseteq attempted]_vars

\* In a level of two tiles the first failed and the second was attempted
\* after it and produced; the level has ended.
C16_Witness ==
    /\ Len(frontier) = 1
    /\ frontier[1].kind = "parents" /\ Cardinality(frontier[1].tiles) = 2
    /\ pc = "done"
    /\ Len(events) = 2
    /\ events[1].error /\ ~events[2].error
    /\ {events[1].tile, events[2].tile} = frontier[1].tiles

StatNames == <<"polygon_count", "coverage">>

\* The GeoTIFF paths handed to webtiles_from_geotiffs: tiles of the zooms
\* the store keeps ranges for.
WebPaths ==
    {S \in SUBSET {t \in AllTiles : t.z \in RangeZooms} : Cardinality(S) <= MaxPaths}

\* What Raster.from_file / tile_from_path and the encoder do with one
\* GeoTIFF: "read_error" (one of the two raises before the tile is known),
\* or the 1-based index of the band whose WebImage(...) or img.save raises
\* (0: none does).
ReadOutcomes == {"read_error", "read"}
FailBands == 0..Len(StatNames)

\* os.path.isfile(output_path) and not overwrite: the band is skipped.
band_skipped(tile, stat, overwrite) == <<tile, stat>> \in web_tiles /\ ~overwrite

\* A bound taken from the tile itself rather than from the store.
band_min_of_tile(tile, stat) == tile.x

\* The bounds the band is encoded with.
band_min(tile, stat) == get_min(statistics, stat, IntKey(tile.z), TRUE)
band_max(tile, stat) == get_max(statistics, stat, IntKey(tile.z), TRUE)

Encoding(tile, stat) ==
    [tile |-> tile, stat |-> stat, min |-> band_min(tile, stat), max |-> band_max(tile, stat)]

\* The for-loop over the statistics inside the try block, from band i on:
\* written are the web tiles saved, enc the encoder invocations, error says
\* that an exception left the loop.
RECURSIVE encode_bands(_, _, _, _, _)
encode_bands(i, tile, overwrite, fail_at, acc) ==
    IF i > Len(StatNames) THEN acc
    ELSE LET stat == StatNames[i]
         IN  IF band_skipped(tile, stat, overwrite)
             THEN encode_bands(i + 1, tile, overwrite, fail_at, acc)
             ELSE IF band_min(tile, stat) = TypeError \/ band_max(tile, stat) = TypeError
             THEN [acc EXCEPT !.error = TRUE]
             ELSE IF fail_at = i
             THEN [acc EXCEPT !.enc = @ \cup {Encoding(tile, stat)}, !.error = TRUE]
             ELSE encode_bands(i + 1, tile, overwrite, fail_at,
                     [acc EXCEPT !.enc = @ \cup {Encoding(tile, stat)},
                                 !.written = @ \cup {<<tile, stat>>}])

\* webtiles_from_geotiffs(geotiff_paths, update_ranges, overwrite) up to its
\* loop: with update_ranges the ranges of the summary ledger are merged
\* first, and reading a summary file that does not exist raises.
webtiles_begin(paths, upd, overwrite) ==
    /\ call' = Call("webtiles_from_geotiffs", paths, overwrite, upd, TRUE)
    /\ IF upd /\ rasters_summary = << >>
       THEN /\ pc' = "raised"
            /\ todo' = {}
            /\ last' = [op |-> "FileNotFoundError", kt |-> "none"]
            /\ ops' = ops + 1
            /\ UNCHANGED <<statistics, args>>
       ELSE /\ pc' = "web"
            /\ todo' = paths
            /\ args' = [overwrite |-> overwrite, recursive |-> FALSE]
            /\ IF upd
               THEN /\ statistics' = update_ranges(statistics, get_z_ranges(rasters_summary))
                    /\ last' = [op |-> "tiler_update_ranges", kt |-> "int"]
                    /\ ops' = ops + 1
               ELSE UNCHANGED <<statistics, last, ops>>
    /\ attempted' = {}
    /\ UNCHANGED <<rasters_summary, events, geotiffs, z_range, parent_tiles,
                   produced, frontier, webVars, sideVars>>

WebtilesFromGeotiffs(paths, upd, overwrite) ==
    /\ pc = "idle"
    /\ webtiles_begin(paths, upd, overwrite)

\* One iteration of the loop of webtiles_from_geotiffs:
\* webtile_from_geotiff(geotiff_path, overwrite).
WebtileFromGeotiff(tile, read, fail_at, has_summary) ==
    /\ pc = "web"
    /\ tile \in todo
    /\ todo' = todo \ {tile}
    /\ attempted' = attempted \cup {tile}
    /\ IF read = "read_error"
       THEN \* the handler's message reads the unbound local tile and the
            \* UnboundLocalError leaves the call
            /\ pc' = "raised"
            /\ UNCHANGED <<events, rasters_summary, webVars>>
       ELSE LET r == encode_bands(1, tile, args.overwrite, fail_at,
                                  [written |-> {}, enc |-> {}, error |-> FALSE])
            IN  /\ web_tiles' = web_tiles \cup r.written
                /\ encoded' = encoded \cup r.enc
                /\ events' = end_tracking_events(tile, r.error, ~r.error)
                /\ rasters_summary' = end_tracking_summary(tile, ~r.error /\ has_summary)
                /\ UNCHANGED pc
    /\ UNCHANGED <<storeVars, sideVars, geotiffs, z_range, args, parent_tiles, produced, frontier, call>>

\* The end of webtiles_from_geotiffs.
WebtilesEnd ==
    /\ pc = "web"
    /\ todo = {}
    /\ pc' = "done"
    /\ UNCHANGED <<storeVars, sideVars, rasters_summary, events, geotiffs, z_range, args, todo,
                   parent_tiles, attempted, produced, frontier, call, webVars>>

\* The web tiles an earlier run may have left: none; or, of the first
\* column, both bands at zoom 0 and the first band only at the other zooms.
InitWebTiles ==
    {{}, {<<t, s>> : t \in {u \in AllTiles : u.x = 0}, s \in {StatNames[1]}}
           \cup {<<t, s>> : t \in {u \in AllTiles : u.x = 0 /\ u.z = 0}, s \in Stats}}

\* The statistics the web tiles are encoded with: coverage with its full
\* general range, polygon_count with none, an empty one or a full one; and
\* polygon_count with no general range after set_min(2, "polygon_count", "0").
InitWebStatistics ==
    LET plain == {st \in InitStatistics :
                    /\ st["coverage"].val_range = <<2, 5>>
                    /\ st["polygon_count"].val_range \in {NoRange, <<None, None>>, <<2, 5>>}}
    IN  plain \cup {set_min(st, 2, "polygon_count", StrKey(0)) :
                      st \in {u \in plain : u["polygon_count"].val_range = NoRange}}

InitWebtiles ==
    /\ statistics \in InitWebStatistics
    /\ last = [op |-> "init", kt |-> "none"]
    /\ ops = 0
    /\ z_range = <<0, MaxZoom>>
    /\ rasters_summary \in {<< >>, raster_info(Tile(0, 0, 0), RasterBands)}
    /\ events = << >>
    /\ geotiffs = AllTiles
    /\ pc = "idle"
    /\ args = [overwrite |-> TRUE, recursive |-> TRUE]
    /\ todo = {}
    /\ parent_tiles = {}
    /\ attempted = {}
    /\ produced = {}
    /\ frontier = << >>
    /\ call = NoCall
    /\ web_tiles \in InitWebTiles
    /\ encoded = {}
    /\ composited = {}
    /\ csv = NoCsv
    /\ dedup = NoDedup
    /\ heap = NoHeap

NextWebtiles ==
    \/ \E paths \in WebPaths, upd, overwrite \in BOOLEAN :
          WebtilesFromGeotiffs(paths, upd, overwrite)
    \/ \E tile \in todo, read \in ReadOutcomes, fail_at \in FailBands, has_summary \in BOOLEAN :
          WebtileFromGeotiff(tile, read, fail_at, has_summary)
    \/ WebtilesEnd

SpecWebtiles == InitWebtiles /\ [][NextWebtiles]_vars

(***************************************************************************)
(* Skips and failures of the web tile step.                                *)
(***************************************************************************)
\* The encoder has been invoked for the band in the step's outcome.
EncoderInvoked(tile, stat) == \E e \in encoded' : e.tile = tile /\ e.stat = stat

\* Reading a bound of the band raises (the statistic has no general range).
RangeRaises(tile, stat) ==
    band_min(tile, stat) = TypeError \/ band_max(tile, stat) = TypeError

\* The band has no per-zoom and no general value for one of its bounds.
Unresolved(tile, stat) ==
    band_min(tile, stat) \in {None, TypeError} \/ band_max(tile, stat) \in {None, TypeError}

\* The bands of the raster that the step does not skip.
BandsDue(tile) == {stat \in Stats : ~band_skipped(tile, stat, args.overwrite)}

\* C13: webtile_from_geotiff with overwrite=False on a raster whose web
\* tile exists for every statistic writes no image and appends no row to
\* the event ledger or the summary ledger.
C13_WebSkipIsNoOp ==
    [][\A tile \in todo :
          (/\ LoopStep("web", tile)
           /\ ~args.overwrite
           /\ \A stat \in Stats : <<tile, stat>> \in web_tiles)
             => web_tiles' = web_tiles /\ LedgersKept]_vars

\* C17: in the loop of webtiles_from_geotiffs, a raster path that is not
\* completed (no ok event row for it) has failed: the step appends one
\* event row with an error for it and the loop goes on.
C17_WebFailureIsolated ==
    [][\A tile \in todo :
          (/\ LoopStep("web", tile)
           /\ events' # Append(events, EventRow(tile, FALSE, TRUE)))
             => /\ pc' = "web"
                /\ events' = Append(events, EventRow(tile, TRUE, FALSE))]_vars

\* C18: when the raster is read and every band's range can be read, every
\* band that is not skipped is handed to the encoder, whether or not the
\* encoding or saving of another band of the raster failed.
C18_BandFailureIsolated ==
    [][\A tile \in todo :
          (/\ LoopStep("web", tile)
           /\ pc' = "web"
           /\ \A stat \in Stats : ~RangeRaises(tile, stat))
             => \A stat \in BandsDue(tile) : EncoderInvoked(tile, stat)]_vars

\* C19: when a band that is due has no value for one of its bounds, the
\* encoder is not invoked for that band, the step records an error, and
\* the sibling bands that are due and resolved are still handed to the
\* encoder.
C19_MissingRange ==
    [][\A tile \in todo :
          (/\ LoopStep("web", tile)
           /\ pc' = "web"
           /\ \E stat \in BandsDue(tile) : Unresolved(tile, stat))
             => /\ \A stat \in BandsDue(tile) :
                      Unresolved(tile, stat) <=> ~EncoderInvoked(tile, stat)
                /\ events' = Append(events, EventRow(tile, TRUE, FALSE))]_vars


(***************************************************************************)
(* RasterTiler: compositing and the ledgers of the pyramid.                *)
(***************************************************************************)
\* The event appended last is the success event of this tile.
SuccessEvent(ev, tile) ==
    /\ ev # << >>
    /\ ev[Len(ev)] = EventRow(tile, FALSE, TRUE)

\* C21: when parent_geotiff_from_children composites a parent, the rasters
\* it passes to the compositor are exactly the children of the tile that
\* exist on disk, whatever their number, and the parent is written with one
\* success event.
C21_ExistingChildrenComposited ==
    [][\A tile \in todo :
          (LoopStep("level", tile) /\ tile \in produced') =>
             /\ composited' = composited \cup
                   {[tile |-> tile,
                     rasters |-> {c \in get_child_paths(tile) : c \in geotiffs}]}
             /\ tile \in geotiffs'
             /\ Len(events') = Len(events) + 1
             /\ SuccessEvent(events', tile)]_vars

\* C21 witness: a parent was composited from exactly two of its four
\* children, two that exist and none that does not, and it is on disk with
\* a success event.
C21_Witness ==
    \E c \in composited :
        /\ Cardinality(c.rasters) = 2
        /\ Cardinality(get_child_paths(c.tile)) = 4
        /\ c.rasters \subseteq geotiffs
        /\ c.tile \in geotiffs
        /\ \E i \in 1..Len(events) : events[i] = EventRow(c.tile, FALSE, TRUE)


\* The rows a sequence gained: what follows its first n elements.
Gained(old, new) == SubSeq(new, Len(old) + 1, Len(new))

\* One row per band for this tile, and nothing else.
RowPerBand(rows, tile) ==
    /\ Len(rows) = Cardinality(Stats)
    /\ \A i \in 1..Len(rows) : rows[i].tile = tile /\ rows[i].z = tile.z
    /\ {rows[i].stat : i \in 1..Len(rows)} = Stats

\* C23: a step of the leaf loop or of a parent loop that writes the raster
\* of its tile appends, in the same step, exactly one summary row per band
\* of that tile after the rows already there; a step that fails or skips
\* appends none, and nothing else in a build touches the summary ledger.
C23_SummaryRowsPerRaster ==
    [][/\ \A tile \in todo :
             (LoopStep("leaves", tile) \/ LoopStep("level", tile)) =>
                 /\ SubSeq(rasters_summary', 1, Len(rasters_summary)) = rasters_summary
                 /\ IF tile \in produced'
                    THEN /\ tile \in geotiffs'
                         /\ RowPerBand(Gained(rasters_summary, rasters_summary'), tile)
                    ELSE rasters_summary' = rasters_summary
       /\ rasters_summary' # rasters_summary =>
             \E tile \in todo : LoopStep("leaves", tile) \/ LoopStep("level", tile)]_vars

\* C23 witness: a build wrote a leaf and a parent and had a failure; the
\* summary ledger holds the rows of the two rasters and no others.
C23_Witness ==
    /\ Len(rasters_summary) = 2 * Cardinality(Stats)
    /\ \E i, j \in 1..Len(rasters_summary) :
          rasters_summary[i].z = rasters_summary[j].z + 1
    /\ \E i \in 1..Len(events) : events[i].error
    /\ Cardinality({i \in 1..Len(events) : ~events[i].error}) = 2

\* get_errors: the event rows whose error is not null, in ledger order.
IsError(row) == row.error

get_errors(ev) == SelectSeq(ev, IsError)

\* C24: a step of the leaf loop or of a parent loop that does not skip its
\* tile appends exactly one event row, the row of that tile, with an error
\* exactly when the step did not produce the tile; so get_errors gains that
\* row exactly when the attempt failed.
C24_EventRowPerAttempt ==
    [][\A tile \in todo :
          ((LoopStep("leaves", tile) \/ LoopStep("level", tile))
             /\ ~skips(tile, args.overwrite)) =>
              /\ Len(events') = Len(events) + 1
              /\ SubSeq(events', 1, Len(events)) = events
              /\ events'[Len(events')].tile = tile
              /\ events'[Len(events')].error <=> tile \notin produced'
              /\ Len(get_errors(events')) =
                    Len(get_errors(events)) + (IF tile \in produced' THEN 0 ELSE 1)]_vars

(***************************************************************************)
(* RasterTiler.rasterize_vectors: a build that is interrupted and resumed. *)
(***************************************************************************)
\* Where the process can die inside the processing of one tile: after
\* raster.write and before __end_tracking, or inside __end_tracking after
\* the summary rows are appended and before the event row is.
KillPoints == {"written", "summarised"}

\* The process dies: what is on disk stays, the running loop and its local
\* variables are gone, and the call is remembered as interrupted.
Killed ==
    /\ pc' = "idle"
    /\ todo' = {}
    /\ parent_tiles' = {}
    /\ attempted' = {}
    /\ produced' = {}
    /\ frontier' = << >>
    /\ call' = [call EXCEPT !.op = "interrupted"]
    /\ UNCHANGED <<storeVars, sideVars, z_range, args, webVars>>

\* The process dies between two tiles of the leaf loop or of a parent loop.
InterruptBetween ==
    /\ pc \in {"leaves", "level"}
    /\ Killed
    /\ UNCHANGED <<geotiffs, rasters_summary, events>>

\* The process dies while a tile is processed, once its raster is written.
InterruptWithin(tile, at) ==
    /\ pc \in {"leaves", "level"}
    /\ tile \in todo
    /\ ~skips(tile, args.overwrite)
    /\ geotiffs' = geotiffs \cup {tile}
    /\ rasters_summary' = IF at = "summarised" THEN end_tracking_summary(tile, TRUE)
                          ELSE rasters_summary
    /\ Killed
    /\ UNCHANGED events

\* The first build: rasterize_vectors(paths, overwrite=overwrite).
Build(paths, overwrite) ==
    /\ call.op = "none"
    /\ RasterizeVectors(paths, TRUE, TRUE, overwrite)

\* The build is run again on the same inputs with overwrite=False.
Resume ==
    /\ call.op = "interrupted"
    /\ RasterizeVectors(call.paths, call.tms_ok, call.option, FALSE)

InitResume == InitPyramid /\ geotiffs = {}

\* No collaborator fails: every tile that is not skipped is produced.
NextResume ==
    \/ \E z \in Zooms : \E paths \in TileSets(z), overwrite \in BOOLEAN :
          Build(paths, overwrite)
    \/ \E path \in todo : RasterizeVector(path, "ok")
    \/ RasterizeVectorsEnd
    \/ \E tile \in todo : ParentGeotiffFromChildren(tile, "ok")
    \/ ParentGeotiffsEnd
    \/ InterruptBetween
    \/ \E tile \in todo, at \in KillPoints : InterruptWithin(tile, at)
    \/ Resume

SpecResume == InitResume /\ [][NextResume]_vars

\* The tiles above a tile, down to the configured min zoom.
RECURSIVE Ancestors(_)
Ancestors(tile) ==
    IF tile.z <= z_range[1] THEN {}
    ELSE {get_parent_tile(tile)} \cup Ancestors(get_parent_tile(tile))

\* A resumed build has returned: it ran with overwrite=False on a directory
\* that held rasters of the interrupted build.
ResumedAndReturned ==
    /\ pc = "done"
    /\ call.op = "rasterize_vectors"
    /\ ~call.overwrite
    /\ call.existing # {}

\* Every raster on disk has its success event: no interruption fell inside
\* the processing of a tile.
AllTracked ==
    \A t \in geotiffs : \E i \in 1..Len(events) : events[i] = EventRow(t, FALSE, TRUE)

\* C25: when a build that was interrupted between tiles has been resumed
\* with overwrite=False and has returned, every ancestor, down to the min
\* zoom, of every leaf raster on disk has a raster.
C25_SafeResume ==
    (ResumedAndReturned /\ AllTracked) =>
        \A leaf \in geotiffs :
            leaf.z = z_range[2] => Ancestors(leaf) \subseteq geotiffs

\* C29: when an interrupted build has been resumed with overwrite=False and
\* has returned, so that the ranges are recomputed next, every raster on
\* disk has its per-band rows in the summary ledger.
C29_SummaryCrashConsistent ==
    ResumedAndReturned =>
        \A t \in geotiffs :
            {rasters_summary[i].stat :
                i \in {j \in 1..Len(rasters_summary) : rasters_summary[j].tile = t}} = Stats

(***************************************************************************)
(* RasterTiler.__append_to_csv: one ledger file.                           *)
(***************************************************************************)
\* The header line DataFrame.to_csv writes, and the values of a data row.
Header == "header"
RowVals == {"a", "b"}

\* The data frames handed to __append_to_csv: at most MaxRows rows.
Frames == UNION {[1..k -> RowVals] : k \in 0..MaxRows}

\* An existence test that never finds the file.
never_isfile(file) == FALSE

\* os.path.isfile(path)
isfile(file) == file.exists

\* data.to_csv(path, mode=mode, index=False, header=header): mode "w"
\* truncates the file, mode "a" keeps what it holds; the header line, when
\* asked for, comes before the rows.
to_csv(file, data, mode, header) ==
    [exists |-> TRUE,
     lines |-> (IF mode = "w" THEN << >> ELSE file.lines)
                 \o (IF header THEN <<Header>> ELSE << >>) \o data]

\* __append_to_csv(path, data)
append_to_csv(file, data) ==
    IF ~isfile(file) THEN to_csv(file, data, "w", TRUE)
    ELSE to_csv(file, data, "a", FALSE)

AppendToCsv(data) ==
    /\ csv.n < MaxAppends
    /\ csv' = [file |-> append_to_csv(csv.file, data),
               appended |-> csv.appended \o data,
               n |-> csv.n + 1]
    /\ UNCHANGED <<buildVars, dedup>>

InitLedger == InitStore /\ \A s \in Stats : statistics[s].val_range = <<2, 5>>

NextLedger == \E data \in Frames : AppendToCsv(data)

SpecLedger == InitLedger /\ [][NextLedger]_vars

\* C22: once a ledger file has been appended to, it holds one header line,
\* the first line, followed by all the rows appended so far in append
\* order: no append changes or removes a line written earlier.
C22_AppendDiscipline ==
    csv.n > 0 =>
        /\ csv.file.exists
        /\ csv.file.lines = <<Header>> \o csv.appended

\* C22 witness: a file that was created by one append and appended to by
\* later ones, each with rows.
C22_Witness ==
    /\ csv.n = MaxAppends
    /\ Len(csv.appended) > csv.n
    /\ csv.file.lines[1] = Header
    /\ Len(csv.file.lines) > 3


(***************************************************************************)
(* Deduplication options and the table rasterize_vector rasterizes.        *)
(***************************************************************************)
\* The steps of the workflow that can deduplicate.
DedupSteps == {"staging", "raster", "3dtiles"}

\* The values of the option deduplicate_at: None, a bare string, or a list
\* of steps (the order of a list does not matter to "in").
DedupAt ==
    {[t |-> "none", v |-> {}]}
      \cup {[t |-> "str", v |-> {st}] : st \in DedupSteps}
      \cup {[t |-> "list", v |-> S] : S \in SUBSET DedupSteps}

\* The values of the option deduplicate_method: None, the two methods, and
\* a name that is not a method.
DedupMethods == {"none", "neighbor", "footprints", "other"}

\* The tables read from a staged file: at most MaxRows rows, each with its
\* flag in the column staging_duplicated (no row is flagged in a table
\* without the column).
Tables(has_column) ==
    UNION {{[i \in 1..k |-> [id |-> i, duplicated |-> f[i]]] :
              f \in [1..k -> (IF has_column THEN BOOLEAN ELSE {FALSE})]}
           : k \in 0..MaxRows}

\* A step test that takes 'staging' to enable the later steps too.
staging_implies(cfg, step) ==
    cfg.deduplicate_at.t = "list"
      /\ (step \in cfg.deduplicate_at.v \/ "staging" \in cfg.deduplicate_at.v)

\* ConfigManager.deduplicate_at(step)
deduplicate_at(cfg, step) ==
    cfg.deduplicate_at.t = "list" /\ step \in cfg.deduplicate_at.v

\* ConfigManager.get_deduplication_method()
get_deduplication_method(cfg) ==
    IF cfg.deduplicate_method = "neighbor" \/ cfg.deduplicate_method = "footprints"
    THEN cfg.deduplicate_method
    ELSE "none"

NotDuplicated(row) == ~row.duplicated

\* The table rasterize_vector hands to Raster.from_vector.
filtered_gdf(cfg) ==
    LET dedup_here == deduplicate_at(cfg, "raster")
        dedup_method == get_deduplication_method(cfg)
    IN  IF dedup_here /\ dedup_method # "none"
        THEN IF cfg.has_column THEN SelectSeq(cfg.gdf, NotDuplicated) ELSE cfg.gdf
        ELSE cfg.gdf

\* rasterize_vector from gpd.read_file to Raster.from_vector.
RasterizeTable ==
    /\ ~dedup.done
    /\ dedup' = [dedup EXCEPT !.done = TRUE, !.rasterized = filtered_gdf(dedup)]
    /\ UNCHANGED <<buildVars, csv>>

InitDedup ==
    /\ statistics \in {st \in InitStatistics : \A s \in Stats : st[s].val_range = <<2, 5>>}
    /\ last = [op |-> "init", kt |-> "none"]
    /\ ops = 0
    /\ z_range = <<0, MaxZoom>>
    /\ InitBuild
    /\ csv = NoCsv
    /\ heap = NoHeap
    /\ \E at \in DedupAt, method \in DedupMethods, has_column \in BOOLEAN :
          \E gdf \in Tables(has_column) :
             dedup = [deduplicate_at |-> at, deduplicate_method |-> method,
                      has_column |-> has_column, gdf |-> gdf, done |-> FALSE,
                      rasterized |-> << >>]

NextDedup == RasterizeTable

SpecDedup == InitDedup /\ [][NextDedup]_vars

\* The configuration the claim names: 'raster' in the deduplicate_at list
\* and a deduplication method of 'neighbor' or 'footprints'.
RasterDedupConfigured ==
    /\ dedup.deduplicate_at.t = "list"
    /\ "raster" \in dedup.deduplicate_at.v
    /\ dedup.deduplicate_method \in {"neighbor", "footprints"}

C27_StagingImpliesLater ==
    (dedup.done /\ dedup.deduplicate_at.t = "list"
       /\ "staging" \in dedup.deduplicate_at.v) =>
        /\ deduplicate_at(dedup, "raster")
        /\ deduplicate_at(dedup, "3dtiles")


(***************************************************************************)
(* ConfigManager.update_ranges called again and again.                     *)
(***************************************************************************)
NextUpdates == \E new_ranges \in NewRanges : UpdateRanges(new_ranges)

SpecUpdates == InitStore /\ [][NextUpdates]_vars

\* C28: no call of update_ranges makes min_missing or max_missing (with the
\* fallback to the general range allowed) report true for a bound of a
\* (statistic, zoom) for which it reported false before the call.
C28_MonotoneConvergence ==
    [][\A stat \in Stats, z \in Keys :
          /\ ~min_missing(statistics, stat, z, TRUE) =>
                ~min_missing(statistics', stat, z, TRUE)
          /\ ~max_missing(statistics, stat, z, TRUE) =>
                ~max_missing(statistics', stat, z, TRUE)]_vars


(***************************************************************************)
(* RasterTiler.rasterize_all: the stages of a full build.                  *)
(***************************************************************************)
\* A stage test that lets the next stage start while the loops still run.
raster_stage_running(p, op) ==
    op = "rasterize_vectors" /\ p \in {"leaves", "level", "done"}

\* rasterize_vectors has returned to rasterize_all.
raster_stage_returned(p, op) == op = "rasterize_vectors" /\ p = "done"

\* rasterize_all(overwrite) up to the loop of rasterize_vectors: paths are
\* the files of the staged directory and make_parents is at its default.
RasterizeAll(paths, tms_ok, overwrite) ==
    /\ call.op = "none"
    /\ RasterizeVectors(paths, tms_ok, TRUE, overwrite)

\* webtiles_from_all_geotiffs(overwrite=overwrite): every GeoTIFF of
\* dir_geotiff, with update_ranges at its default, True.
WebtilesFromAllGeotiffs ==
    /\ raster_stage_returned(pc, call.op)
    /\ webtiles_begin(geotiffs, TRUE, call.overwrite)

\* csv_to_parquet(): both ledgers are mirrored; a ledger that is not a
\* file makes it read self.logger, which RasterTiler does not have.
CsvToParquet ==
    /\ call.op = "webtiles_from_geotiffs"
    /\ pc = "done"
    /\ pc' = IF events = << >> \/ rasters_summary = << >> THEN "raised" ELSE "mirrored"
    /\ UNCHANGED <<storeVars, sideVars, rasters_summary, events, geotiffs, z_range, args,
                   todo, parent_tiles, attempted, produced, frontier, call, webVars>>

\* A fresh output directory and the zooms the store keeps ranges for.
InitAll ==
    /\ InitPyramid
    /\ geotiffs = {}
    /\ z_range[2] \in RangeZooms

NextAll ==
    \/ \E z \in Zooms : \E paths \in TileSets(z), tms_ok, overwrite \in BOOLEAN :
          RasterizeAll(paths, tms_ok, overwrite)
    \/ \E path \in todo : \E outcome \in LeafOutcomes(path) : RasterizeVector(path, outcome)
    \/ RasterizeVectorsEnd
    \/ \E tile \in todo : \E outcome \in ParentOutcomes(tile) :
          ParentGeotiffFromChildren(tile, outcome)
    \/ ParentGeotiffsEnd
    \/ WebtilesFromAllGeotiffs
    \/ \E tile \in todo, read \in ReadOutcomes : WebtileFromGeotiff(tile, read, 0, FALSE)
    \/ WebtilesEnd
    \/ CsvToParquet

SpecAll == InitAll /\ [][NextAll]_vars


\* Every loop of the raster stage that was entered has attempted all the
\* tiles handed to it.
LevelsAttempted ==
    /\ frontier # << >>
    /\ \A i \in 1..Len(frontier) :
          frontier[i].entered => frontier[i].tiles \subseteq attempted

\* C30: in rasterize_all the stages follow one another. The range merge is
\* attempted only once, when rasterize_vectors has returned with every
\* level it entered attempted and before any web tile is encoded; rasters
\* are written only before the merge; web tiles are encoded and written
\* only after the one merge; and the mirror of the ledgers comes after the
\* web-tile loop has ended, with nothing after it.
C30_StageOrder ==
    [][/\ ops' # ops =>
             /\ ops = 0 /\ ops' = 1
             /\ pc = "done" /\ call.op = "rasterize_vectors"
             /\ LevelsAttempted
             /\ encoded = {} /\ web_tiles = {}
             /\ geotiffs' = geotiffs
       /\ geotiffs' # geotiffs =>
             /\ ops = 0
             /\ encoded = {} /\ web_tiles = {}
       /\ (encoded' # encoded \/ web_tiles' # web_tiles) =>
             /\ ops = 1 /\ last.op = "tiler_update_ranges"
             /\ call.op = "webtiles_from_geotiffs"
             /\ geotiffs' = geotiffs
       /\ pc' = "mirrored" =>
             /\ pc = "done" /\ call.op = "webtiles_from_geotiffs"
             /\ todo = {}
             /\ ops = 1
       /\ pc # "mirrored"]_vars

\* C30 witness: a full build is over: leaves and a parent level were
\* rasterized, the ranges were merged once, web tiles of both levels were
\* encoded and the ledgers were mirrored.
C30_Witness ==
    /\ pc = "mirrored"
    /\ ops = 1
    /\ \E t, u \in geotiffs : t.z = u.z + 1 /\ \E e, f \in encoded : e.tile = t /\ f.tile = u
    /\ \E i \in 1..Len(frontier) : frontier[i].kind = "parents" /\ frontier[i].entered


(***************************************************************************)
(* RasterTiler.webtiles_from_geotiffs: the ranges and events of one call.  *)
(***************************************************************************)
\* C31: while the loop of webtiles_from_geotiffs runs the value-range store
\* is not modified, and every encoder invocation gets the (min, max) pair
\* the store resolves, with fallback, since the merge at the start of the
\* call: the same pair as every other invocation of the call for the same
\* statistic and zoom.
C31_ConsistentRanges ==
    [][/\ pc = "web" => statistics' = statistics
       /\ \A e \in encoded' \ encoded :
             /\ e.min = get_min(statistics', e.stat, IntKey(e.tile.z), TRUE)
             /\ e.max = get_max(statistics', e.stat, IntKey(e.tile.z), TRUE)
             /\ \A f \in encoded' :
                   (f.stat = e.stat /\ f.tile.z = e.tile.z) =>
                       (f.min = e.min /\ f.max = e.max)]_vars

\* C31 witness: a call that merged the ranges first has encoded the same
\* statistic for two tiles of one zoom.
C31_Witness ==
    /\ call.op = "webtiles_from_geotiffs"
    /\ call.option
    /\ \E e, f \in encoded :
          /\ e.tile # f.tile
          /\ e.tile.z = f.tile.z
          /\ e.stat = f.stat
          /\ e.min = f.min /\ e.max = f.max


\* The success events among the rows a ledger gained.
SuccessEvents(old, new) ==
    {i \in (Len(old) + 1)..Len(new) : ~new[i].error}

\* C32: a step of the web-tile loop on a tile that has no web tile yet
\* appends as many success events as it writes web-tile images.
C32_EventPerWebTile ==
    [][\A tile \in todo :
          (LoopStep("web", tile) /\ \A stat \in Stats : <<tile, stat>> \notin web_tiles) =>
              Cardinality(SuccessEvents(events, events'))
                = Cardinality(web_tiles' \ web_tiles)]_vars


(***************************************************************************)
(* RasterTiler.parent_geotiffs_from_children: the recursion.               *)
(***************************************************************************)
\* Calls of parent_geotiffs_from_children alone; every call that has begun
\* keeps running (one thread, no step waits on anything).
NextParents ==
    \/ \E z \in Zooms : \E tiles \in TileSets(z), recursive, overwrite \in BOOLEAN :
          CallParentGeotiffs(tiles, recursive, overwrite)
    \/ \E tile \in todo : \E outcome \in ParentOutcomes(tile) :
          ParentGeotiffFromChildren(tile, outcome)
    \/ ParentGeotiffsEnd

\* parent_geotiffs_from_children reads the min zoom of the range only
\* (get_min_z), so the max zoom is held at its largest value.
InitParents == InitPyramid /\ z_range[2] = MaxZoom

SpecParents == InitParents /\ [][NextParents]_vars /\ WF_vars(NextParents)

\* The levels a call may process when it is handed tiles at zoom z.
MaxLevels(z) == IF z >= z_range[1] THEN z - z_range[1] + 1 ELSE 0

\* The recursion so far: each call is handed tiles one zoom below the call
\* before it, at most MaxLevels loops have run, and a call on an empty set
\* runs none.
BoundedRecursion ==
    /\ \A i \in DOMAIN frontier :
          (i > 1 /\ frontier[i].tiles # {}) =>
              round_z(frontier[i]) = round_z(frontier[i - 1]) - 1
    /\ frontier # << >> =>
          IF frontier[1].tiles = {} THEN Entered = {}
          ELSE Cardinality(Entered) <= MaxLevels(round_z(frontier[1]))
    /\ Len(frontier) <= Cardinality(Entered) + 1

\* C33: a call of parent_geotiffs_from_children on a same-zoom set goes
\* down one zoom per recursion step, runs at most z - min_z + 1 loops (none
\* on an empty set), and comes to an end.
C33_RecursionTerminates ==
    /\ []BoundedRecursion
    /\ (pc = "level") ~> (pc \in {"done", "raised"})

\* C33 witness: a call handed tiles above the min zoom has ended after
\* exactly z - min_z + 1 loops.
C33_Witness ==
    /\ pc = "done"
    /\ Len(frontier) = 3
    /\ Cardinality(Entered) = 2
    /\ MaxLevels(round_z(frontier[1])) = 2


(***************************************************************************)
(* ConfigManager.update_ranges: idempotence and frame.                     *)
(***************************************************************************)
\* Every value get_min / get_max resolve, with and without fallback.
ResolvedAll(self) ==
    [q \in Stats \X Keys \X BOOLEAN |->
        <<get_min(self, q[1], q[2], q[3]), get_max(self, q[1], q[2], q[3])>>]

\* C34: when update_ranges has just been called with a mapping, calling it
\* again with the same mapping changes neither the store nor any value
\* get_min / get_max resolve.
C34_MergeIdempotent ==
    [][\A m \in NewRanges :
          statistics' = update_ranges(statistics, m) =>
              /\ update_ranges(statistics', m) = statistics'
              /\ ResolvedAll(update_ranges(statistics', m)) = ResolvedAll(statistics')]_vars


\* update_ranges(new_ranges), with the call and the keys of its mapping
\* kept as history.
Merge(new_ranges) ==
    /\ ops < MaxOps
    /\ statistics' = update_ranges(statistics, new_ranges)
    /\ last' = [op |-> "update_ranges", kt |-> KeyTypeOf(new_ranges)]
    /\ ops' = ops + 1
    /\ call' = [NoCall EXCEPT !.op = "update_ranges", !.paths = DOMAIN new_ranges]
    /\ UNCHANGED <<rasters_summary, events, geotiffs, z_range, pc, args, todo,
                   parent_tiles, attempted, produced, frontier, webVars, sideVars>>

NextMerge == \E new_ranges \in NewRanges : Merge(new_ranges)

SpecMerge == InitStore /\ [][NextMerge]_vars

\* C35: a call of update_ranges with a mapping leaves the general val_range
\* of every statistic, and the stored range of every (statistic, zoom) that
\* is not in the mapping, as they were.
C35_MergeFrame ==
    [][ops' = ops + 1 =>
          \A stat \in Stats, z \in ZArgs :
              <<stat, z>> \notin call'.paths =>
                  stored_range(statistics', stat, z) = stored_range(statistics, stat, z)]_vars

\* C35 witness: update_ranges has filled a per-zoom range of a statistic
\* whose general range still has its configured missing min, and another
\* zoom of that statistic has no range.
C35_Witness ==
    /\ last.op = "update_ranges"
    /\ \E stat \in Stats, z, z2 \in Keys :
          /\ z # z2
          /\ stored_range(statistics, stat, z) # NoRange
          /\ stored_range(statistics, stat, z2) = NoRange
          /\ statistics[stat].val_range = <<None, 5>>

\* ---------------------------------------------------------------------------
\* ConfigManager instances and the objects their configs refer to
\* ---------------------------------------------------------------------------

MaxInstances == 2

\* What a caller passes for 'statistics': nothing, or a list of their own.
UserConfigs ==
    {[given |-> FALSE, statistics |-> DefaultStatistics]}
    \cup {[given |-> TRUE, statistics |-> s]
           : s \in {t \in InitStatistics : /\ t["coverage"].val_range = <<2, 5>>
                                            /\ t["polygon_count"].val_range \in {NoRange, <<None, 5>>}}}

\* self.config = self.defaults | config: the merged dict holds the caller's
\* statistics list when there is one, and otherwise the very list of the
\* class attribute (object 1). self.original_config = self.config.copy() is
\* a shallow copy, so its 'statistics' is the same object again.
construct(h, user) ==
    LET shared == ~user.given
        objs == IF shared THEN h.objs ELSE Append(h.objs, user.statistics)
        id == IF shared THEN 1 ELSE Len(objs)
    IN  [objs |-> objs,
         inst |-> Append(h.inst, [config |-> id, original |-> id,
                                  snapshot |-> objs[id], touched |-> FALSE])]

\* A setter called on instance i writes into the object its config refers to.
written(h, i, value) ==
    [objs |-> [h.objs EXCEPT ![h.inst[i].config] = value],
     inst |-> [h.inst EXCEPT ![i].touched = TRUE]]

config_of(h, i) == h.objs[h.inst[i].config]
original_config_of(h, i) == h.objs[h.inst[i].original]

\* list_updates: the keys whose current value differs from the value in
\* original_config.
list_updates(h, i) ==
    IF config_of(h, i) # original_config_of(h, i) THEN {"statistics"} ELSE {}

Instances == 1..Len(heap.inst)

Construct(user) ==
    /\ Len(heap.inst) < MaxInstances
    /\ heap' = construct(heap, user)
    /\ UNCHANGED <<storeVars, rasters_summary, events, geotiffs, z_range, pc, args, todo,
                   parent_tiles, attempted, produced, frontier, call, webVars,
                   composited, csv, dedup>>

InstanceWrite(i, value, op, kt) ==
    /\ ops < MaxOps
    /\ heap' = written(heap, i, value)
    /\ last' = [op |-> op, kt |-> kt]
    /\ ops' = ops + 1
    /\ UNCHANGED <<statistics, rasters_summary, events, geotiffs, z_range, pc, args, todo,
                   parent_tiles, attempted, produced, frontier, call, webVars,
                   composited, csv, dedup>>

InstanceSetMin(i, value, stat, z) ==
    InstanceWrite(i, set_min(config_of(heap, i), value, stat, z), "set_min", z.t)

InstanceSetMax(i, value, stat, z) ==
    InstanceWrite(i, set_max(config_of(heap, i), value, stat, z), "set_max", z.t)

InstanceUpdateRanges(i, new_ranges) ==
    InstanceWrite(i, update_ranges(config_of(heap, i), new_ranges), "update_ranges",
                  KeyTypeOf(new_ranges))

InitInstances == InitStore /\ statistics = DefaultStatistics

NextInstances ==
    \/ \E user \in UserConfigs : Construct(user)
    \/ \E i \in Instances, value \in Vals, stat \in Stats, z \in ZArgs :
          InstanceSetMin(i, value, stat, z)
    \/ \E i \in Instances, value \in Vals, stat \in Stats, z \in ZArgs :
          InstanceSetMax(i, value, stat, z)
    \/ \E i \in Instances, new_ranges \in NewRanges : InstanceUpdateRanges(i, new_ranges)

SpecInstances == InitInstances /\ [][NextInstances]_vars

\* C36: original_config keeps the ranges as they were at construction, and
\* once the current ranges differ from them list_updates reports
\* 'statistics' as changed.
C36_OriginalIsSnapshot ==
    \A i \in Instances :
        /\ original_config_of(heap, i) = heap.inst[i].snapshot
        /\ config_of(heap, i) # heap.inst[i].snapshot => "statistics" \in list_updates(heap, i)

\* C37: a range set through one instance changes neither the ranges of an
\* instance it was not set through nor the class-level defaults.
C37_InstancesIsolated ==
    /\ heap.objs[1] = DefaultStatistics
    /\ \A i \in Instances : ~heap.inst[i].touched => config_of(heap, i) = heap.inst[i].snapshot

\* ---------------------------------------------------------------------------
\* The tiles whose parent coordinate is requested
\* ---------------------------------------------------------------------------

\* The step of either loop hands this tile to get_parent_tile: the per-tile
\* operation returned it (it was produced, not skipped and not failed).
requests_parent(tile) ==
    /\ LoopStep("leaves", tile) \/ LoopStep("level", tile)
    /\ tile \in produced' \ produced

\* C38: get_parent_tile is invoked on tiles of zoom > 0 only.
C38_ParentOfPositiveZoomOnly ==
    [][\A tile \in todo : requests_parent(tile) => tile.z > 0]_vars

\* ---------------------------------------------------------------------------
\* The parents reached through the recursion
\* ---------------------------------------------------------------------------

\* C39: a parent attempted in a round the recursion reached (any round
\* after the first of the call) has not been attempted before in the call,
\* and when it is composited at least one of its child rasters is a file.
C39_ParentsHaveChildren ==
    [][\A tile \in todo :
          (LoopStep("level", tile) /\ Len(frontier) >= 2) =>
             /\ tile \notin attempted
             /\ \A c \in composited' \ composited : c.tile = tile /\ c.rasters # {}]_vars

\* Two sibling tiles produced in the first round imply one parent, which
\* the second round has composited from both.
C39_Witness ==
    /\ Len(frontier) >= 2
    /\ \E c \in composited :
          /\ c.tile \in frontier[2].tiles
          /\ c.tile \in attempted
          /\ Cardinality(c.rasters \cap frontier[2].from) = 2

=============================================================================
